---- MODULE Spec2Model ----
(***************************************************************************)
(* Corrosion detection service: the Flask front end (app.py), the          *)
(* Streamlit front end (streamlit_app.py), the coverage calculator         *)
(* (utils/detection.py) and the hosted store wrapper (utils/database.py).  *)
(*                                                                         *)
(* Percentages are exact rationals <<num, den>>; the floating point       *)
(* expression (corrosion_pixels / total_pixels) * 100 is modelled by the   *)
(* rational it rounds.  uuid.uuid4() is modelled as a fresh counter value. *)
(***************************************************************************)
EXTENDS Integers, Sequences, FiniteSets, TLC

VARIABLES
    env,         \* what the process found at start-up (imports, model file, credentials)
    detector,    \* the module level object `detector`
    db,          \* the module level object `db`
    store,       \* rows of the hosted database: images, detections, comments
    uploads,     \* files in the upload folder (Flask) / temporary files (Streamlit)
    processed,   \* files in the processed folder
    nextUuid,    \* next value uuid.uuid4() hands out
    clock,       \* the database clock behind uploaded_at
    nreq,        \* requests / script runs so far that wrote something
    req,         \* the request being answered
    resp,        \* its response
    calls,       \* the side-effecting calls the handler made, in order
    flow,        \* how far the latest uploaded image got: uploaded, detected, commented
    issued,      \* <<table, id>> of every insert of an image or a comment that returned an id
    calcBoxes,   \* calculator input: result.boxes
    calcW,       \* calculator input: width of the image at result.path
    calcH,       \* calculator input: height of the image at result.path
    calcResult   \* calculator outcome

vars == <<env, detector, db, store, uploads, processed, nextUuid, clock, nreq,
          req, resp, calls, flow, issued, calcBoxes, calcW, calcH, calcResult>>

appVars == <<env, detector, db, store, uploads, processed, nextUuid, clock,
             nreq, req, resp, calls, flow, issued>>

calcVars == <<calcBoxes, calcW, calcH, calcResult>>

(***************************************************************************)
(* Bounds of the model.                                                    *)
(***************************************************************************)
MaxRequests == 3

MaxRuns == 2

MaxBoxes == 2

MaxCoord == 2

MaxDim == 2

MaxClock == 1

(***************************************************************************)
(* Percentages.                                                            *)
(***************************************************************************)
Pct(num, den) == <<num, den>>

PctLeq(p, q) == p[1] * q[2] <= q[1] * p[2]

ZeroPct == Pct(0, 1)

HundredPct == Pct(100, 1)

\* return 15.7  # Mock value
MockPercentage == Pct(157, 10)

(***************************************************************************)
(* Bounding boxes (x1, y1, x2, y2) as box.xyxy[0].tolist() yields them.    *)
(***************************************************************************)
Coords == 0..MaxCoord

Boxes == {b \in Coords \X Coords \X Coords \X Coords : b[1] < b[3] /\ b[2] < b[4]}

BoxLists == UNION {[1..n -> Boxes] : n \in 0..MaxBoxes}

Dims == 0..MaxDim

BoxArea(box) == (box[3] - box[1]) * (box[4] - box[2])

\* corrosion_pixels = 0; for box in result.boxes: corrosion_pixels += area
RECURSIVE CorrosionPixels(_, _)
CorrosionPixels(boxes, acc) ==
    IF boxes = <<>> THEN acc
    ELSE CorrosionPixels(Tail(boxes), acc + BoxArea(Head(boxes)))

Value(p) == [kind |-> "value", pct |-> p]

Raised == [kind |-> "error", pct |-> ZeroPct]

NoResult == [kind |-> "none", pct |-> ZeroPct]

\* The calculator, had it clamped the coverage to 100.
calculate_clamped(boxes, width, height) ==
    IF boxes = <<>> THEN Value(ZeroPct)
    ELSE IF height * width = 0 THEN Raised
    ELSE LET p == Pct(CorrosionPixels(boxes, 0) * 100, height * width)
         IN  Value(IF PctLeq(p, HundredPct) THEN p ELSE HundredPct)

\* The calculator, had it read the image size before looking at the boxes.
calculate_dims_first(boxes, width, height) ==
    IF height * width = 0 THEN Raised
    ELSE IF boxes = <<>> THEN Value(ZeroPct)
    ELSE Value(Pct(CorrosionPixels(boxes, 0) * 100, height * width))

\* CorrosionDetector.calculate_corrosion_percentage(result), with width and
\* height the shape of cv2.imread(result.path).  A picture without pixels makes
\* the function raise (no image to take the shape of, or a division by zero).
calculate_corrosion_percentage(boxes, width, height) ==
    IF boxes = <<>> THEN Value(ZeroPct)
    ELSE LET total_pixels == height * width
             corrosion_pixels == CorrosionPixels(boxes, 0)
         IN  IF total_pixels = 0 THEN Raised
             ELSE Value(Pct(corrosion_pixels * 100, total_pixels))

(***************************************************************************)
(* Values: identifiers, file names, URLs.                                  *)
(***************************************************************************)
NoneId == <<"None", 0>>

EmptyId == <<"", 0>>

\* self.data = [{'id': 'mock-id'}]
MockId == <<"mock-id", 0>>

\* str(uuid.uuid4())
Uuid(n) == <<"uuid", n>>

\* an id the hosted database generates for a new row
RowId(n) == <<"row", n>>

\* the name image_id when no assignment to it was executed (NameError on use)
UnboundId == <<"unbound", 0>>

\* an identifier a client may send that no upload ever returned
StrangerId == <<"uuid", 0>>

Falsy(v) == v[1] \in {"None", ""}

NoneName == <<0, "None">>

EmptyName == <<0, "">>

\* a file name a client may send that was never uploaded
StrangerName == <<0, "ghost.jpg">>

FalsyName(f) == f[2] \in {"None", ""}

RawNames == {"", "a.jpg"}

Comments == {"None", "", "rust"}

\* werkzeug's secure_filename leaves the plain names of RawNames as they are
secure_filename(name) == name

Url(prefix, f) == <<prefix, f[1], f[2]>>

NullUrl == <<"None", 0, "">>

(***************************************************************************)
(* Start-up: which detector and which store the process ends up with.      *)
(***************************************************************************)
Frontends == {"flask", "streamlit"}

\* ml_import:  `from ultralytics import YOLO` (and cv2) succeeds
\* model_load: YOLO('best.pt') succeeds
\* db_import:  `from supabase import create_client` succeeds
\* creds:      SUPABASE_URL and SUPABASE_KEY are both non-empty
\* connect:    create_client(url, key) succeeds on non-empty credentials
Environments ==
    {e \in [frontend : Frontends, ml_import : BOOLEAN, model_load : BOOLEAN,
            db_import : BOOLEAN, creds : BOOLEAN, connect : BOOLEAN] :
        /\ (~e.ml_import => ~e.model_load)
        /\ (~(e.db_import /\ e.creds) => ~e.connect)}

\* app.py: YOLO is ultralytics.YOLO or MockYOLO; detector = YOLO('best.pt'),
\* and MockDetector only when that call raises.
flask_detector(e) ==
    IF ~e.ml_import THEN "MockYOLO"
    ELSE IF e.model_load THEN "YOLO"
    ELSE "MockDetector"

\* app.py: create_client is supabase's or returns MockClient; db is
\* create_client(url, key) with credentials, MockDB without or on an exception.
flask_db(e) ==
    IF e.creds
    THEN IF ~e.db_import THEN "MockClient"
         ELSE IF e.connect THEN "Supabase" ELSE "MockDB"
    ELSE "MockDB"

\* the attributes the handlers use, per class of the detector object
HasAttr(d, attr) ==
    CASE d \in {"YOLO", "MockYOLO"} -> FALSE
      [] d \in {"MockDetector", "CorrosionDetector", "MockCorrosionDetector"} ->
            attr \in {"detect", "calculate_corrosion_percentage"}
      [] OTHER -> FALSE

IsMockDetector(d) == d \in {"MockDetector", "MockCorrosionDetector"}

IsMockStore(k) == k \in {"MockClient", "MockDB", "MockSupabaseDB"}

IsRealStore(k) == k \in {"Supabase", "SupabaseDB"}

(***************************************************************************)
(* The hosted store.  `writes` counts the writes a row has received.       *)
(***************************************************************************)
EmptyStore == [images |-> <<>>, detections |-> <<>>, comments |-> <<>>, nextRow |-> 1]

Outcomes == {"ok", "norows", "raise"}

InsertOutcomes(k) == IF IsRealStore(k) THEN Outcomes ELSE {"ok"}

UpdateOutcomes(k) == IF IsRealStore(k) THEN {"ok", "raise"} ELSE {"ok"}

\* uploaded_at defaults to the database's now()
Times == {t \in {clock, clock + 1} : t <= MaxClock}

ExecResult(s, data, raised) == [store |-> s, data |-> data, raised |-> raised]

\* table(name).insert(row).execute() on the hosted service
SupabaseInsert(s, table, row, outcome) ==
    CASE outcome = "ok" ->
            ExecResult([s EXCEPT ![table] = Append(@, [row EXCEPT !.id = RowId(s.nextRow)]),
                                 !.nextRow = @ + 1],
                       <<RowId(s.nextRow)>>, FALSE)
      [] outcome = "norows" -> ExecResult(s, <<>>, FALSE)
      [] OTHER -> ExecResult(s, <<>>, TRUE)

\* The update, had it lost its .eq('id', image_id) filter.
SupabaseUpdateAll(s, image_id, url, outcome) ==
    IF outcome = "ok"
    THEN ExecResult([s EXCEPT !.images =
                        [i \in 1..Len(@) |->
                            [@[i] EXCEPT !.processed_image_url = url, !.writes = @ + 1]]],
                    <<>>, FALSE)
    ELSE ExecResult(s, <<>>, TRUE)

\* table('images').update({'processed_image_url': url}).eq('id', image_id).execute()
SupabaseUpdate(s, image_id, url, outcome) ==
    IF outcome = "ok"
    THEN ExecResult([s EXCEPT !.images =
                        [i \in 1..Len(@) |->
                            IF @[i].id = image_id
                            THEN [@[i] EXCEPT !.processed_image_url = url, !.writes = @ + 1]
                            ELSE @[i]]],
                    <<>>, FALSE)
    ELSE ExecResult(s, <<>>, TRUE)

\* db.table(t).insert(row).execute() for the three classes db can have in app.py
execute_insert(k, s, table, row, outcome, u) ==
    CASE k = "MockClient" -> ExecResult(s, <<MockId>>, FALSE)
      [] k = "MockDB" -> ExecResult(s, <<Uuid(u)>>, FALSE)
      [] OTHER -> SupabaseInsert(s, table, row, outcome)

\* db.table('images').update(row).eq('id', image_id).execute() in app.py
execute_update(k, s, image_id, url, outcome) ==
    IF k \in {"MockClient", "MockDB"} THEN ExecResult(s, <<>>, FALSE)
    ELSE SupabaseUpdate(s, image_id, url, outcome)

ImageRow(filename, url, t) ==
    [id |-> NoneId, filename |-> filename, original_image_url |-> url,
     processed_image_url |-> NullUrl, uploaded_at |-> t, writes |-> 1]

DetectionRow(image_id, pct, data) ==
    [id |-> NoneId, image_id |-> image_id, corrosion_percentage |-> pct,
     detection_data |-> data]

CommentRow(image_id, text, t) ==
    [id |-> NoneId, image_id |-> image_id, comment_text |-> text, created_at |-> t]

(***************************************************************************)
(* Requests and responses.                                                 *)
(***************************************************************************)
NoData == [keys |-> {}, boxes |-> <<>>, pct |-> ZeroPct]

NoReq == [handler |-> "none", has_file |-> FALSE, raw_name |-> "",
          image_id |-> NoneId, filename |-> NoneName, comment |-> "None"]

NoResp == [status |-> 0, image_id |-> NoneId, filename |-> NoneName,
           processed_url |-> NullUrl, pct |-> ZeroPct, detection_data |-> NoData,
           comment_id |-> NoneId, history |-> <<>>, insert_failed |-> FALSE,
           result_boxes |-> <<>>, update_failed |-> FALSE]

NoFlow == [image_id |-> NoneId, filename |-> NoneName, stage |-> "none", pct |-> ZeroPct]

\* result_boxes and update_failed are not part of the answer: the boxes of the
\* result that detector.detect returned while the request was handled, and
\* whether the update of the image row raised

\* identifiers and file names a client can put in a request
ClientIds == {NoneId, EmptyId, StrangerId}
                \cup {store.images[i].id : i \in 1..Len(store.images)}
                \cup (IF flow.stage = "none" THEN {} ELSE {flow.image_id})

ClientNames == {NoneName, EmptyName, StrangerName} \cup uploads

\* nreq counts the requests that got past validation and wrote something;
\* MaxRequests (Flask) and MaxRuns (Streamlit) bound them
Respond(rq, rs, cs, n) ==
    /\ req' = rq
    /\ resp' = rs
    /\ calls' = cs
    /\ nreq' = nreq + n
    /\ UNCHANGED <<env, detector, db, calcVars>>

\* return jsonify({'error': ...}), 400
Reject(rq) ==
    /\ Respond(rq, [NoResp EXCEPT !.status = 400], <<>>, 0)
    /\ UNCHANGED <<store, uploads, processed, nextUuid, clock, flow, issued>>

\* an exception leaves the handler: Flask answers 500
Fail(rq, cs) ==
    /\ Respond(rq, [NoResp EXCEPT !.status = 500], cs, 0)
    /\ UNCHANGED <<store, uploads, processed, nextUuid, clock, flow, issued>>

\* f"processed_{filename}"
ProcessedName(f) == <<f[1], "processed_" \o f[2]>>

\* The dispatch, had the mock classes computed the coverage of their empty result.
detector_calculate_zero(d, boxes, width, height) ==
    calculate_corrosion_percentage(boxes, width, height)

\* detector.calculate_corrosion_percentage(result): the mock classes return
\* 15.7, CorrosionDetector computes the coverage
detector_calculate(d, boxes, width, height) ==
    IF IsMockDetector(d) THEN Value(MockPercentage)
    ELSE calculate_corrosion_percentage(boxes, width, height)

(***************************************************************************)
(* The Flask front end (app.py).                                           *)
(***************************************************************************)
\* the hard-coded mock_history of get_history; uploaded_at as yyyymmddhh
mock_history ==
    << [id |-> <<"mock-id-1", 0>>, filename |-> <<0, "sample1.jpg">>,
        original_image_url |-> <<"/static", 0, "sample1.jpg">>,
        processed_image_url |-> <<"/static", 0, "sample1_processed.jpg">>,
        uploaded_at |-> 2023101512],
       [id |-> <<"mock-id-2", 0>>, filename |-> <<0, "sample2.jpg">>,
        original_image_url |-> <<"/static", 0, "sample2.jpg">>,
        processed_image_url |-> <<"/static", 0, "sample2_processed.jpg">>,
        uploaded_at |-> 2023101410] >>

\* the flow of the latest upload moves on when a later request names its image
FlowAfterDetect(image_id, filename, pct) ==
    IF flow.stage = "uploaded" /\ flow.image_id = image_id /\ flow.filename = filename
    THEN [flow EXCEPT !.stage = "detected", !.pct = pct]
    ELSE flow

FlowAfterComment(image_id) ==
    IF flow.stage = "detected" /\ flow.image_id = image_id
    THEN [flow EXCEPT !.stage = "commented"]
    ELSE flow

\* if 'file' not in request.files / if file.filename == ''
upload_invalid(has_file, raw_name) == ~has_file \/ raw_name = ""

\* POST /upload
upload_image ==
    /\ env.frontend = "flask"
    /\ \E has_file \in BOOLEAN :
       \E raw_name \in (IF has_file THEN RawNames ELSE {""}) :
        LET rq == [NoReq EXCEPT !.handler = "upload", !.has_file = has_file,
                                !.raw_name = raw_name]
        IN  IF upload_invalid(has_file, raw_name)
            THEN Reject(rq)
            ELSE /\ nreq < MaxRequests
                 /\ \E outcome \in InsertOutcomes(db) :
                    \E t \in (IF IsRealStore(db) /\ outcome = "ok" THEN Times ELSE {clock}) :
                     LET unique_filename == <<nextUuid, secure_filename(raw_name)>>
                         original_url == Url("/uploads", unique_filename)
                         r == execute_insert(db, store, "images",
                                             ImageRow(unique_filename, original_url, t),
                                             outcome, nextUuid + 1)
                         \* result.data[0]['id'] raises IndexError on no rows
                         failed == r.raised \/ r.data = <<>>
                         image_id == IF failed THEN Uuid(nextUuid + 1) ELSE r.data[1]
                     IN  /\ uploads' = uploads \cup {unique_filename}
                         /\ store' = r.store
                         /\ clock' = t
                         /\ nextUuid' = IF failed \/ db = "MockDB" THEN nextUuid + 2
                                        ELSE nextUuid + 1
                         /\ flow' = [image_id |-> image_id, filename |-> unique_filename,
                                     stage |-> "uploaded", pct |-> ZeroPct]
                         /\ issued' = IF failed THEN issued
                                      ELSE Append(issued, <<"images", image_id>>)
                         /\ Respond(rq,
                                    [NoResp EXCEPT !.status = 200, !.image_id = image_id,
                                                   !.filename = unique_filename,
                                                   !.insert_failed = failed],
                                    <<"file.save", "images.insert">>, 1)
                         /\ UNCHANGED processed

\* The validation, had it only checked image_id.
detect_invalid_id_only(image_id, filename) == Falsy(image_id)

\* if not image_id or not filename
detect_invalid(image_id, filename) == Falsy(image_id) \/ FalsyName(filename)

TryResult(s, cs, update_failed) == [store |-> s, calls |-> cs, update_failed |-> update_failed]

\* The store calls of detect_corrosion, had each had a try block of its own.
detect_try_separate(k, s, image_id, processed_url, row, o_update, o_insert, u) ==
    LET upd == execute_update(k, s, image_id, processed_url, o_update)
        ins == execute_insert(k, IF upd.raised THEN s ELSE upd.store, "detections",
                              row, o_insert, u)
    IN  TryResult(ins.store, <<"images.update", "detections.insert">>, upd.raised)

\* the try block of detect_corrosion: the update of the image row, then the
\* insert of the detection row; an exception of either goes to the except
\* branch, which prints it
detect_try(k, s, image_id, processed_url, row, o_update, o_insert, u) ==
    LET upd == execute_update(k, s, image_id, processed_url, o_update)
        ins == execute_insert(k, upd.store, "detections", row, o_insert, u)
    IN  IF upd.raised
        THEN TryResult(s, <<"images.update">>, TRUE)
        ELSE TryResult(ins.store, <<"images.update", "detections.insert">>, FALSE)

\* POST /detect
detect_corrosion ==
    /\ env.frontend = "flask"
    /\ \E image_id \in ClientIds, filename \in ClientNames :
        LET rq == [NoReq EXCEPT !.handler = "detect", !.image_id = image_id,
                                !.filename = filename]
        IN  IF detect_invalid(image_id, filename)
            THEN Reject(rq)
            ELSE IF ~HasAttr(detector, "detect")
            THEN \* detector.detect raises AttributeError
                 Fail(rq, <<>>)
            ELSE IF filename \notin uploads
            THEN \* result.save: shutil.copy2 raises FileNotFoundError
                 Fail(rq, <<"detector.detect", "result.save">>)
            ELSE /\ nreq < MaxRequests
                 /\ \E o_update \in UpdateOutcomes(db) :
                    \E o_insert \in (IF o_update = "ok" THEN InsertOutcomes(db)
                                     ELSE {"ok"}) :
                     LET processed_filename == ProcessedName(filename)
                         processed_url == Url("/processed", processed_filename)
                         \* MockResult: self.boxes = None
                         corrosion_percentage ==
                             detector_calculate(detector, <<>>, 1, 1).pct
                         detection_data == [keys |-> {"boxes", "corrosion_percentage"},
                                            boxes |-> <<>>, pct |-> corrosion_percentage]
                         t == detect_try(db, store, image_id, processed_url,
                                         DetectionRow(image_id, corrosion_percentage,
                                                      detection_data),
                                         o_update, o_insert, nextUuid)
                     IN  /\ processed' = processed \cup {processed_filename}
                         /\ store' = t.store
                         /\ flow' = FlowAfterDetect(image_id, filename,
                                                    corrosion_percentage)
                         /\ Respond(rq,
                                    [NoResp EXCEPT !.status = 200,
                                                   !.processed_url = processed_url,
                                                   !.pct = corrosion_percentage,
                                                   !.detection_data = detection_data,
                                                   \* MockResult: self.boxes = None
                                                   !.result_boxes = <<>>,
                                                   !.update_failed = t.update_failed],
                                    <<"detector.detect", "result.save", "calculate">>
                                      \o t.calls, 1)
                         /\ UNCHANGED <<uploads, nextUuid, clock, issued>>

\* if not image_id or not comment_text
comment_invalid(image_id, comment_text) ==
    Falsy(image_id) \/ comment_text \in {"None", ""}

\* POST /comment
add_comment ==
    /\ env.frontend = "flask"
    /\ \E image_id \in ClientIds, comment_text \in Comments :
        LET rq == [NoReq EXCEPT !.handler = "comment", !.image_id = image_id,
                                !.comment = comment_text]
        IN  IF comment_invalid(image_id, comment_text)
            THEN Reject(rq)
            ELSE /\ nreq < MaxRequests
                 /\ \E outcome \in InsertOutcomes(db) :
                     LET r == execute_insert(db, store, "comments",
                                             CommentRow(image_id, comment_text, clock),
                                             outcome, nextUuid)
                         failed == r.raised \/ r.data = <<>>
                         comment_id == IF failed THEN Uuid(nextUuid) ELSE r.data[1]
                     IN  /\ store' = r.store
                         /\ nextUuid' = IF failed \/ db = "MockDB" THEN nextUuid + 1
                                        ELSE nextUuid
                         /\ flow' = FlowAfterComment(image_id)
                         /\ issued' = IF failed THEN issued
                                      ELSE Append(issued, <<"comments", comment_id>>)
                         /\ Respond(rq,
                                    [NoResp EXCEPT !.status = 200,
                                                   !.comment_id = comment_id,
                                                   !.insert_failed = failed],
                                    <<"comments.insert">>, 1)
                         /\ UNCHANGED <<uploads, processed, clock>>

\* GET /history
get_history ==
    /\ env.frontend = "flask"
    /\ Respond([NoReq EXCEPT !.handler = "history"],
               [NoResp EXCEPT !.status = 200, !.history = mock_history], <<>>, 0)
    /\ UNCHANGED <<store, uploads, processed, nextUuid, clock, flow, issued>>

(***************************************************************************)
(* The Streamlit front end (streamlit_app.py).                             *)
(***************************************************************************)
\* the try/except ImportError around the three utils imports
utils_imported(e) == e.ml_import /\ e.db_import

\* load_detector(): the except branch calls the same class again, so a failing
\* real constructor fails twice and the exception leaves the function
load_detector(e) ==
    IF utils_imported(e)
    THEN IF e.model_load THEN "CorrosionDetector" ELSE "LoadFailed"
    ELSE "MockCorrosionDetector"

\* load_database(): likewise
load_database(e) ==
    IF utils_imported(e)
    THEN IF e.creds /\ e.connect THEN "SupabaseDB" ELSE "LoadFailed"
    ELSE "MockSupabaseDB"

IdResult(s, id, raised) == [store |-> s, id |-> id, raised |-> raised]

\* SupabaseDB.insert_image / insert_detection / insert_comment:
\* return result.data[0]['id'] if result.data else None
insert_row(k, s, table, row, outcome, u) ==
    IF k = "MockSupabaseDB"
    THEN IdResult(s, IF table = "detections" THEN NoneId ELSE Uuid(u), FALSE)
    ELSE LET r == SupabaseInsert(s, table, row, outcome)
         IN  IdResult(r.store, IF r.data # <<>> THEN r.data[1] ELSE NoneId, r.raised)

\* SupabaseDB.update_image_processed
update_image_processed(k, s, image_id, processed_url, outcome) ==
    IF k = "MockSupabaseDB" THEN ExecResult(s, <<>>, FALSE)
    ELSE SupabaseUpdate(s, image_id, processed_url, outcome)

RowView(r) ==
    [id |-> r.id, filename |-> r.filename, original_image_url |-> r.original_image_url,
     processed_image_url |-> r.processed_image_url, uploaded_at |-> r.uploaded_at]

\* order('uploaded_at', desc=True): insert row r before the first older row
RECURSIVE InsertDesc(_, _)
InsertDesc(r, rows) ==
    IF rows = <<>> THEN <<r>>
    ELSE IF r.uploaded_at >= Head(rows).uploaded_at THEN <<r>> \o rows
    ELSE <<Head(rows)>> \o InsertDesc(r, Tail(rows))

RECURSIVE OrderDesc(_)
OrderDesc(rows) ==
    IF rows = <<>> THEN <<>>
    ELSE InsertDesc(Head(rows), OrderDesc(Tail(rows)))

\* the canned list of the mock SupabaseDB.get_all_images; uploaded_at as yyyymmddhh
mock_images ==
    << [id |-> <<"mock-1", 0>>, filename |-> <<0, "sample1.jpg">>,
        original_image_url |-> <<"https://placehold.co", 0, "Sample+1">>,
        processed_image_url |-> <<"https://placehold.co", 0, "Processed+1">>,
        uploaded_at |-> 2023101512, corrosion_percentage |-> Pct(125, 10)],
       [id |-> <<"mock-2", 0>>, filename |-> <<0, "sample2.jpg">>,
        original_image_url |-> <<"https://placehold.co", 0, "Sample+2">>,
        processed_image_url |-> <<"https://placehold.co", 0, "Processed+2">>,
        uploaded_at |-> 2023101410, corrosion_percentage |-> Pct(83, 10)] >>

\* The listing, had it ordered the rows oldest first.
get_all_images_ascending(k, s) ==
    IF k = "MockSupabaseDB" THEN mock_images
    ELSE LET d == OrderDesc(s.images)
         IN  [i \in 1..Len(d) |-> RowView(d[Len(d) + 1 - i])]

\* SupabaseDB.get_all_images
get_all_images(k, s) ==
    IF k = "MockSupabaseDB" THEN mock_images
    ELSE LET d == OrderDesc(s.images)
         IN  [i \in 1..Len(d) |-> RowView(d[i])]

\* what detector.detect returns for the uploaded picture, as <<boxes, width,
\* height>>: the mock returns no boxes; for CorrosionDetector a 2 x 2 picture
\* with no box, one box, and two boxes that overlap
Detections(d) ==
    IF IsMockDetector(d) THEN {<<(<<>>), 1, 1>>}
    ELSE {<<(<<>>), 2, 2>>,
          <<(<< <<0, 0, 1, 1>> >>), 2, 2>>,
          <<(<< <<0, 0, 2, 2>>, <<0, 0, 2, 1>> >>), 2, 2>>}

StreamlitUp ==
    /\ env.frontend = "streamlit"
    /\ detector # "LoadFailed"
    /\ db # "LoadFailed"

\* "Upload Image" page, a run with a file chosen and "Detect Corrosion" pressed.
\* st.button("Save Comment") is False in every such run: pressing it starts a
\* new run, in which "Detect Corrosion" is False.
upload_and_detect ==
    /\ StreamlitUp
    /\ nreq < MaxRuns
    /\ \E name \in RawNames \ {""}, result \in Detections(detector) :
       \E o_image \in InsertOutcomes(db) :
       \E o_update \in (IF o_image = "raise" THEN {"ok"} ELSE UpdateOutcomes(db)) :
       \E o_detection \in (IF o_image = "raise" \/ o_update = "raise" THEN {"ok"}
                           ELSE InsertOutcomes(db)) :
       \E t \in (IF IsRealStore(db) /\ o_image = "ok" THEN Times ELSE {clock}) :
        LET tmp_path == <<nextUuid, ".jpg">>
            processed_filename == ProcessedName(<<0, name>>)
            processed_path == Url("processed", processed_filename)
            corrosion_percentage ==
                detector_calculate(detector, result[1], result[2], result[3]).pct
            data == [keys |-> {"percentage"}, boxes |-> <<>>,
                     pct |-> corrosion_percentage]
            img == insert_row(db, store, "images",
                              ImageRow(<<0, name>>, Url("", tmp_path), t),
                              o_image, nextUuid + 1)
            upd == update_image_processed(db, img.store, img.id, processed_path, o_update)
            det == insert_row(db, upd.store, "detections",
                              DetectionRow(img.id, corrosion_percentage, data),
                              o_detection, 0)
            s1 == IF img.raised THEN store
                  ELSE IF upd.raised THEN img.store
                  ELSE det.store
            \* image_id stays unbound when insert_image raised
            image_id == IF img.raised THEN UnboundId ELSE img.id
            save_clicked == FALSE
            comment == "rust"
            saving == save_clicked /\ comment # ""
            \* db.insert_comment(image_id, comment): NameError on the unbound name
            com == insert_row(db, s1, "comments", CommentRow(image_id, comment, t),
                              "ok", nextUuid + 2)
            commented == saving /\ image_id # UnboundId /\ ~com.raised
        IN  /\ uploads' = uploads \cup {tmp_path}
            /\ processed' = processed \cup {processed_filename}
            /\ store' = IF saving /\ image_id # UnboundId THEN com.store ELSE s1
            /\ clock' = t
            /\ nextUuid' = nextUuid + 2
            /\ flow' = [image_id |-> image_id, filename |-> <<0, name>>,
                        stage |-> IF commented THEN "commented" ELSE "detected",
                        pct |-> corrosion_percentage]
            /\ issued' = (IF img.raised \/ img.id = NoneId THEN issued
                          ELSE Append(issued, <<"images", img.id>>))
                            \o (IF commented /\ com.id # NoneId
                                THEN << <<"comments", com.id>> >> ELSE <<>>)
            /\ Respond([NoReq EXCEPT !.handler = "upload_and_detect", !.has_file = TRUE,
                                     !.raw_name = name],
                       [NoResp EXCEPT !.status = 200, !.image_id = image_id,
                                      !.filename = <<0, name>>,
                                      !.processed_url = processed_path,
                                      !.pct = corrosion_percentage,
                                      !.detection_data = data,
                                      !.result_boxes = result[1],
                                      !.comment_id = IF commented THEN com.id ELSE NoneId,
                                      !.insert_failed = img.raised \/ img.id = NoneId],
                       <<"detector.detect", "result.save", "calculate", "images.insert">>
                         \o (IF img.raised THEN <<>> ELSE <<"images.update">>)
                         \o (IF img.raised \/ upd.raised THEN <<>>
                             ELSE <<"detections.insert">>)
                         \o (IF saving /\ image_id # UnboundId THEN <<"comments.insert">>
                             ELSE <<>>), 1)

\* "View History" page: db.get_all_images() inside try/except
view_history ==
    /\ StreamlitUp
    /\ \E select_ok \in (IF IsRealStore(db) THEN BOOLEAN ELSE {TRUE}) :
        /\ Respond([NoReq EXCEPT !.handler = "history"],
                   [NoResp EXCEPT !.status = IF select_ok THEN 200 ELSE 500,
                                  !.history = IF select_ok THEN get_all_images(db, store)
                                              ELSE <<>>],
                   <<"images.select">>, 0)
        /\ UNCHANGED <<store, uploads, processed, nextUuid, clock, flow, issued>>

\* "View History" page, a run in which "Save Comment" of entry `target` was
\* pressed with a non-empty text
history_comment ==
    /\ StreamlitUp
    /\ nreq < MaxRuns
    /\ LET history == get_all_images(db, store)
       IN  \E target \in 1..Len(history), o_comment \in InsertOutcomes(db) :
            LET com == insert_row(db, store, "comments",
                                  CommentRow(history[target].id, "rust", clock),
                                  o_comment, nextUuid)
            IN  /\ store' = com.store
                /\ nextUuid' = IF db = "MockSupabaseDB" THEN nextUuid + 1 ELSE nextUuid
                /\ issued' = IF com.raised \/ com.id = NoneId THEN issued
                             ELSE Append(issued, <<"comments", com.id>>)
                /\ Respond([NoReq EXCEPT !.handler = "history_comment",
                                         !.image_id = history[target].id,
                                         !.comment = "rust"],
                           [NoResp EXCEPT !.status = 200, !.history = history,
                                          !.comment_id = IF com.raised THEN NoneId
                                                         ELSE com.id,
                                          !.insert_failed = com.raised],
                           <<"images.select", "comments.insert">>, 1)
                /\ UNCHANGED <<uploads, processed, clock, flow>>

(***************************************************************************)
(* Specifications.                                                         *)
(***************************************************************************)
CalcIdle ==
    /\ calcBoxes = <<>>
    /\ calcW = 1
    /\ calcH = 1
    /\ calcResult = NoResult

Init ==
    /\ env \in Environments
    /\ detector = IF env.frontend = "flask" THEN flask_detector(env)
                  ELSE load_detector(env)
    /\ db = IF env.frontend = "flask" THEN flask_db(env) ELSE load_database(env)
    /\ store = EmptyStore
    /\ uploads = {}
    /\ processed = {}
    /\ nextUuid = 1
    /\ clock = 0
    /\ nreq = 0
    /\ req = NoReq
    /\ resp = NoResp
    /\ calls = <<>>
    /\ flow = NoFlow
    /\ issued = <<>>
    /\ CalcIdle

Next ==
    \/ upload_image
    \/ detect_corrosion
    \/ add_comment
    \/ get_history
    \/ upload_and_detect
    \/ view_history
    \/ history_comment

Spec == Init /\ [][Next]_vars

(***************************************************************************)
(* The calculator on its own: every box list up to MaxBoxes boxes with     *)
(* coordinates up to MaxCoord, on every picture size up to MaxDim.         *)
(***************************************************************************)
AppIdle ==
    /\ env = [frontend |-> "none", ml_import |-> FALSE, model_load |-> FALSE,
              db_import |-> FALSE, creds |-> FALSE, connect |-> FALSE]
    /\ detector = "none"
    /\ db = "none"
    /\ store = EmptyStore
    /\ uploads = {}
    /\ processed = {}
    /\ nextUuid = 1
    /\ clock = 0
    /\ nreq = 0
    /\ req = NoReq
    /\ resp = NoResp
    /\ calls = <<>>
    /\ flow = NoFlow
    /\ issued = <<>>

CalcInit ==
    /\ AppIdle
    /\ calcBoxes = <<>>
    /\ calcW \in Dims
    /\ calcH \in Dims
    /\ calcResult = NoResult

\* the detection result gains one more box
detect_box ==
    /\ calcResult = NoResult
    /\ Len(calcBoxes) < MaxBoxes
    /\ \E box \in Boxes : calcBoxes' = Append(calcBoxes, box)
    /\ UNCHANGED <<calcW, calcH, calcResult, appVars>>

\* detector.calculate_corrosion_percentage(result)
calculate ==
    /\ calcResult = NoResult
    /\ calcResult' = calculate_corrosion_percentage(calcBoxes, calcW, calcH)
    /\ UNCHANGED <<calcBoxes, calcW, calcH, appVars>>

CalcNext ==
    \/ detect_box
    \/ calculate

CalcSpec == CalcInit /\ [][CalcNext]_vars

(***************************************************************************)
(* Properties of the calculator (checked under CalcSpec).                  *)
(***************************************************************************)
CalcDone == calcResult # NoResult

\* the sum of the box areas, from the last box to the first
RECURSIVE AreaOfFirst(_)
AreaOfFirst(n) ==
    IF n = 0 THEN 0
    ELSE (calcBoxes[n][3] - calcBoxes[n][1]) * (calcBoxes[n][4] - calcBoxes[n][2])
            + AreaOfFirst(n - 1)

\* C1: on a picture of width W > 0 and height H > 0 the calculator returns
\* exactly 100 * (sum of the box areas) / (W * H): 0.0 for no boxes, 100.0 for
\* the single box (0, 0, W, H), a box listed twice counted twice, and no
\* clamping at 100.
C1_ExactCoverage ==
    (CalcDone /\ calcW > 0 /\ calcH > 0) =>
        /\ calcResult.kind = "value"
        /\ calcResult.pct[2] > 0
        /\ calcResult.pct[1] * (calcW * calcH)
              = 100 * AreaOfFirst(Len(calcBoxes)) * calcResult.pct[2]
        /\ (calcBoxes = <<>> => calcResult.pct[1] = 0)
        /\ (calcBoxes = << <<0, 0, calcW, calcH>> >> =>
                calcResult.pct[1] = 100 * calcResult.pct[2])
        /\ (Len(calcBoxes) = 2 /\ calcBoxes[1] = calcBoxes[2] =>
                calcResult.pct[1] * (calcW * calcH)
                   = 200 * (calcBoxes[1][3] - calcBoxes[1][1])
                         * (calcBoxes[1][4] - calcBoxes[1][2]) * calcResult.pct[2])

\* a box listed twice pushed the result above 100
C1_Witness ==
    /\ CalcDone
    /\ calcW > 0 /\ calcH > 0
    /\ Len(calcBoxes) = 2 /\ calcBoxes[1] = calcBoxes[2]
    /\ calcResult.kind = "value"
    /\ calcResult.pct[1] > 100 * calcResult.pct[2]

\* C2 as stated: with width 0 or height 0 the calculation fails for every box
\* list, empty or not.
C2_AlwaysFailsOnZeroSize ==
    (CalcDone /\ (calcW = 0 \/ calcH = 0)) => calcResult.kind = "error"

\* C2 as amended: with width 0 or height 0 the calculation fails for every
\* non-empty box list and returns no value; for the empty list it returns
\* 0.0, the size of the picture being never looked at.
C2_FailsOnZeroSizeUnlessEmpty ==
    (CalcDone /\ (calcW = 0 \/ calcH = 0)) =>
        IF calcBoxes = <<>>
        THEN calcResult.kind = "value" /\ calcResult.pct[1] = 0
        ELSE calcResult.kind = "error"

C2_Witness ==
    /\ CalcDone
    /\ calcW = 0
    /\ calcBoxes # <<>>
    /\ calcResult.kind = "error"

(***************************************************************************)
(* Properties of the two front ends (checked under Spec).                  *)
(***************************************************************************)
HistoryAnswered == req.handler = "history" /\ resp.status = 200

InHistory(image_id, filename) ==
    \E i \in 1..Len(resp.history) :
        /\ resp.history[i].id = image_id
        /\ resp.history[i].filename = filename
        /\ resp.history[i].processed_image_url # NullUrl

\* C3 as stated: with the mock detector and a mock store, after upload,
\* detect and comment on one image, the history holds the record of that
\* image (same id and file name) with a non-null processed URL.
C3_HistoryHoldsUpload ==
    (IsMockDetector(detector) /\ IsMockStore(db) /\ HistoryAnswered
        /\ flow.stage = "commented") =>
        InHistory(flow.image_id, flow.filename)

\* C3 as amended: with a mock store the history is the fixed list of two
\* sample records, each with a non-null processed URL, whatever was uploaded:
\* it does not hold the record of the uploaded image; the fixed mock
\* percentage 15.7 is what a successful detect of the mock detector answered.
C3_HistoryIsCanned ==
    /\ (IsMockStore(db) /\ HistoryAnswered) =>
          /\ Len(resp.history) = 2
          /\ resp.history[1].id[1] \in {"mock-id-1", "mock-1"}
          /\ resp.history[2].id[1] \in {"mock-id-2", "mock-2"}
          /\ \A i \in 1..2 :
                /\ resp.history[i].processed_image_url # NullUrl
                /\ resp.history[i].filename[2] \in {"sample1.jpg", "sample2.jpg"}
          /\ (flow.stage # "none" => ~InHistory(flow.image_id, flow.filename))
    /\ (IsMockDetector(detector) /\ flow.stage \in {"detected", "commented"}) =>
          flow.pct[1] * 10 = 157 * flow.pct[2]

\* Flask, mock detector, mock store: upload, detect, comment, then history
C3_Witness ==
    /\ env.frontend = "flask"
    /\ IsMockDetector(detector) /\ IsMockStore(db)
    /\ HistoryAnswered
    /\ flow.stage = "commented"

\* C4: when the store's insert of the image fails (raises or returns no
\* rows), the upload flow goes on with a non-null, locally generated image id.
C4_LocalIdAfterFailedInsert ==
    (req.handler \in {"upload", "upload_and_detect"} /\ resp.status = 200
        /\ resp.insert_failed) =>
        resp.image_id[1] = "uuid"

MissingField(r) ==
    \/ r.handler = "upload" /\ (~r.has_file \/ r.raw_name = "")
    \/ r.handler = "detect" /\ (r.image_id[1] \in {"None", ""} \/ r.filename[2] \in {"None", ""})
    \/ r.handler = "comment" /\ (r.image_id[1] \in {"None", ""} \/ r.comment \in {"None", ""})

\* C5: a Flask request with a missing or empty required field is answered
\* with status 400, and the handler makes no detector call, writes no file
\* and makes no store call: files and stored rows are as before.
C5_InvalidInputRejected ==
    [][(env.frontend = "flask" /\ MissingField(req')) =>
          /\ resp'.status = 400
          /\ calls' = <<>>
          /\ UNCHANGED <<store, uploads, processed, nextUuid, clock>>]_vars

\* a detect request without image_id was answered while files were stored
C5_Witness ==
    /\ req.handler = "detect"
    /\ req.image_id[1] \in {"None", ""}
    /\ req.filename \in uploads
    /\ resp.status = 400

\* C6: when loading the real model fails at start-up, the detector in use
\* afterwards is a mock detector.
C6_MockAfterLoadFailure ==
    (env.ml_import /\ ~env.model_load) => IsMockDetector(detector)

\* C7: whatever happened at start-up of the Flask app, a detect request with
\* a valid image id and the name of an uploaded file gets a response.
C7_DetectCompletes ==
    (env.frontend = "flask" /\ req.handler = "detect"
        /\ req.image_id[1] \notin {"None", ""} /\ req.filename \in uploads) =>
        resp.status = 200

\* C8: the list a history request returns is ordered by uploaded_at, most
\* recent first, and with the hosted store it holds every image row.
C8_HistoryDescending ==
    (req.handler \in {"history", "history_comment"} /\ resp.status = 200) =>
        /\ \A i \in 1..(Len(resp.history) - 1) :
              resp.history[i].uploaded_at >= resp.history[i + 1].uploaded_at
        /\ (IsRealStore(db) /\ env.frontend = "streamlit") =>
              /\ Len(resp.history) = Len(store.images)
              /\ \A j \in 1..Len(store.images) :
                    \E i \in 1..Len(resp.history) :
                        resp.history[i].id = store.images[j].id

\* the hosted store returned two rows with different uploaded_at
C8_Witness ==
    /\ HistoryAnswered
    /\ env.frontend = "streamlit"
    /\ IsRealStore(db)
    /\ Len(resp.history) >= 2
    /\ resp.history[1].uploaded_at > resp.history[2].uploaded_at

\* C9 as stated: no image row is written more than twice.
C9_WrittenAtMostTwice ==
    \A i \in 1..Len(store.images) : store.images[i].writes <= 2

\* C9 as amended: an image row is written when it is created and then once by
\* every successful detect request that names its id, which sets its
\* processed URL; no other request changes an existing row.
C9_OnlyDetectRewrites ==
    [][/\ Len(store'.images) >= Len(store.images)
       /\ \A i \in 1..Len(store.images) :
            store'.images[i] # store.images[i] =>
                /\ req'.handler = "detect"
                /\ resp'.status = 200
                /\ req'.image_id = store.images[i].id
                /\ store'.images[i] =
                      [store.images[i] EXCEPT !.processed_image_url = resp'.processed_url,
                                              !.writes = @ + 1]]_vars

\* a second detect request wrote the row a third time
C9_Witness ==
    /\ req.handler = "detect"
    /\ \E i \in 1..Len(store.images) :
          store.images[i].id = req.image_id /\ store.images[i].writes = 3

\* C10: every stored detection has 0.0 <= corrosion_percentage <= 100.0.
C10_PercentageInRange ==
    \A i \in 1..Len(store.detections) :
        LET p == store.detections[i].corrosion_percentage
        IN  p[1] >= 0 /\ p[1] <= 100 * p[2]

\* an insert of an image or a comment was answered
InsertAnswered ==
    /\ req.handler \in {"upload", "comment", "upload_and_detect", "history_comment"}
    /\ resp.status = 200

\* C11: with a mock store in use, any two inserts of the same kind (two
\* uploads, or two comments) that returned an identifier returned different
\* identifiers, and no insert fails.
C11_MockIdsDistinct ==
    IsMockStore(db) =>
        /\ \A i, j \in 1..Len(issued) :
              (i # j /\ issued[i][1] = issued[j][1]) => issued[i][2] # issued[j][2]
        /\ (InsertAnswered => ~resp.insert_failed)

\* a detect request, or a Streamlit run with "Detect Corrosion" pressed, completed
DetectAnswered ==
    /\ req.handler \in {"detect", "upload_and_detect"}
    /\ resp.status = 200

\* C12: the detection_data of a completed detect holds the box list of the
\* detection result it was computed from and the computed percentage, and
\* that percentage is the corrosion_percentage of the same response and of
\* the same stored record.
C12_DataHoldsBoxesAndPercentage ==
    /\ DetectAnswered =>
          /\ resp.detection_data.boxes = resp.result_boxes
          /\ resp.detection_data.pct = resp.pct
    /\ \A i \in 1..Len(store.detections) :
          store.detections[i].detection_data.pct
             = store.detections[i].corrosion_percentage

\* the place of call c in the calls of the request, 0 when it was not made
RECURSIVE PlaceOf(_, _, _)
PlaceOf(c, cs, n) ==
    IF n > Len(cs) THEN 0
    ELSE IF cs[n] = c THEN n
    ELSE PlaceOf(c, cs, n + 1)

\* C13: a completed Flask detect request attempts the update of the image
\* row before the insert of the detection row; when the update fails the
\* insert is not attempted and no detection row appears; a detection row
\* appears only when the update succeeded, and it is the row of this request;
\* the response carries the percentage in both cases.
C13_UpdateBeforeInsert ==
    [][(req'.handler = "detect" /\ resp'.status = 200) =>
          /\ PlaceOf("images.update", calls', 1) > 0
          /\ PlaceOf("detections.insert", calls', 1) \in
                {0} \cup ((PlaceOf("images.update", calls', 1) + 1)..Len(calls'))
          /\ resp'.update_failed =>
                /\ PlaceOf("detections.insert", calls', 1) = 0
                /\ store'.detections = store.detections
          /\ store'.detections # store.detections =>
                /\ ~resp'.update_failed
                /\ Len(store'.detections) = Len(store.detections) + 1
                /\ store'.detections[Len(store'.detections)].image_id = req'.image_id
          /\ resp'.pct = resp'.detection_data.pct
          /\ resp'.pct[1] * 10 = 157 * resp'.pct[2]
          /\ resp'.processed_url # NullUrl]_vars

\* a detect request whose update failed was answered with the percentage,
\* and no detection row was stored
C13_Witness ==
    /\ req.handler = "detect"
    /\ resp.status = 200
    /\ resp.update_failed
    /\ calls = <<"detector.detect", "result.save", "calculate", "images.update">>
    /\ store.detections = <<>>
    /\ resp.pct = MockPercentage

====
